---- MODULE Spec2Model ----
(***************************************************************************)
(* Model of src/app.py: a Streamlit script that authenticates users        *)
(* against the "Utilisateurs" Google Sheet and shows the day's entry of    *)
(* the "Contenu Careme" sheet.                                             *)
(*                                                                         *)
(* Execution model.  app.py is a Streamlit script: every user interaction  *)
(* and every st.rerun() executes the script again from its first line.     *)
(* The module-level statements (lines 87-88) therefore reload df_users,    *)
(* sheet_users and df_careme at the start of every script run; only        *)
(* st.session_state (authenticated, is_registering, user_email), the       *)
(* cached gspread client and the remote sheets outlive a run.  One script  *)
(* run is two steps here: ScriptStart (lines 87-88) and then exactly one   *)
(* of the main_app_flow actions (lines 267-305).                           *)
(*                                                                         *)
(* Spec and SpecContent follow one browser session; SpecTwo interleaves    *)
(* the script runs of two sessions that share the remote Users sheet.      *)
(***************************************************************************)
EXTENDS Naturals, Sequences, FiniteSets, TLC

\* ------------------------------------------------------------- bounds
MaxPad == 1           \* blanks typed before and after an email
MaxUsers == 2         \* rows the remote Users sheet may hold
NumSalts == 1         \* distinct salts bcrypt.gensalt() may draw
MaxContentRows == 2   \* rows of the remote Content sheet

\* the addresses typed into a form, before blanks are put around them
Words == {<<>>, <<"a">>, <<"A">>, <<"b">>}
Passwords == {"", "pw", " pw"}
Salts == 1..NumSalts
Sessions == {"A", "B"}

\* column names (ASCII rendering of Mot_de_Passe_Hache with its accent)
ColEmail == "Email"
ColHash == "Mot_de_Passe_Hache"
ColInscription == "Date_Inscription"
ColDate == "Date"

\* ------------------------------------------------------- pure helpers
SeqsUpTo(S, n) == UNION {[1..k -> S] : k \in 0..n}

Blanks(n) == [i \in 1..n |-> " "]

RawEmails == {Blanks(l) \o w \o Blanks(r) : l \in 0..MaxPad, r \in 0..MaxPad, w \in Words}

\* str.lower() on one character
LowerChar(c) == IF c = "A" THEN "a" ELSE c

lower(str) == [i \in 1..Len(str) |-> LowerChar(str[i])]

RECURSIVE lstrip(_)
lstrip(str) == IF str # <<>> /\ Head(str) = " " THEN lstrip(Tail(str)) ELSE str

RECURSIVE rstrip(_)
rstrip(str) ==
    IF str # <<>> /\ str[Len(str)] = " "
    THEN rstrip(SubSeq(str, 1, Len(str) - 1))
    ELSE str

strip(str) == rstrip(lstrip(str))

\* st.text_input(...).lower().strip()   (lines 146 and 193)
NormalizeEmailMutNoStrip(raw) == lower(raw)
NormalizeEmail(raw) == strip(lower(raw))

\* bcrypt: the hash embeds its salt; the digest is injective in (salt, password)
bcrypt_hashpw(password, salt) == <<salt, password>>

hash_password(password, salt) == bcrypt_hashpw(password, salt)

check_passwordMutAlways(password, hashed_password) == TRUE
check_password(password, hashed_password) ==
    bcrypt_hashpw(password, hashed_password[1]) = hashed_password

\* date.today().strftime('%Y-%m-%d'); days are numbered
Days == {1, 2}
strftime(d) == IF d = 1 THEN "2024-03-01" ELSE "2024-03-02"
DateCells == {"2024-03-01", "2024-03-02", "01/03/2024"}

\* ------------------------------------------------------- data frames
\* A pandas DataFrame: its column names and its rows.  A cell of a column
\* the row never had is NaN.
NaNEmail == <<"NaN">>
NaNHash == <<0, "NaN">>
NaNDate == "NaN"
EmptyDF == [cols |-> {}, rows |-> <<>>]

\* DataFrame.empty: some axis has length 0
IsEmpty(df) == df.rows = <<>> \/ df.cols = {}

\* get_all_records() + pd.DataFrame(data) on the Users sheet (lines 66-67):
\* the header row names the columns, the other rows are the records
UsersFrame(doc) ==
    IF doc.rows = <<>> THEN EmptyDF
    ELSE [cols |-> {doc.header[i] : i \in 1..Len(doc.header)},
          rows |-> [i \in 1..Len(doc.rows) |->
                      [Email |-> IF doc.header[1] = ColEmail
                                 THEN doc.rows[i][1] ELSE NaNEmail,
                       Hash |-> IF doc.header[2] = ColHash
                                THEN doc.rows[i][2] ELSE NaNHash]]]

ContentFrame(doc) ==
    IF doc.rows = <<>> THEN EmptyDF
    ELSE [cols |-> {doc.header[i] : i \in 1..Len(doc.header)},
          rows |-> [i \in 1..Len(doc.rows) |->
                      [Date |-> IF doc.header[1] = ColDate
                                THEN doc.rows[i] ELSE NaNDate,
                       Jour |-> i]]]

\* load_data (lines 55-83): (DataFrame, sheet), or (empty DataFrame, None)
\* when there is no client or opening or reading the workbook raises
load_dataMutNoClientCheck(cl, opened, frame) ==
    IF opened
    THEN [df |-> frame, sheet |-> "sheet1"]
    ELSE [df |-> EmptyDF, sheet |-> "None"]
load_data(cl, opened, frame) ==
    IF cl /\ opened
    THEN [df |-> frame, sheet |-> "sheet1"]
    ELSE [df |-> EmptyDF, sheet |-> "None"]

\* ----------------------------------------------------- decision logic
FirstMatch(S) == CHOOSE i \in S : \A j \in S : i <= j

EmailMatches(df, email) == {i \in 1..Len(df.rows) : df.rows[i].Email = email}

\* register_user up to the try block (lines 108-119)
RegisterGuardMutEmptyFirst(df, sheet, email, password) ==
    IF sheet = "None" THEN "unavailable"
    ELSE IF email = <<>> \/ password = "" THEN "empty_field"
    ELSE IF ~IsEmpty(df) /\ ColEmail \in df.cols /\ EmailMatches(df, email) # {}
    THEN "already_used"
    ELSE "proceed"
RegisterGuard(df, sheet, email, password) ==
    IF sheet = "None" THEN "unavailable"
    ELSE IF ~IsEmpty(df) /\ ColEmail \in df.cols /\ EmailMatches(df, email) # {}
    THEN "already_used"
    ELSE IF email = <<>> \/ password = "" THEN "empty_field"
    ELSE "proceed"

\* pd.concat([df_users, new_user_df], ignore_index=True) (lines 131-132):
\* the columns are united, the row is appended
ConcatUser(df, email, hashed_pwd) ==
    [cols |-> df.cols \cup {ColEmail, ColHash, ColInscription},
     rows |-> Append(df.rows, [Email |-> email, Hash |-> hashed_pwd])]

\* sheet.append_row(new_row) (line 127): the row goes after the last row
append_row(doc, email, hashed_pwd) ==
    [doc EXCEPT !.rows = Append(@, <<email, hashed_pwd>>)]

\* the submitted branch of login_ui (lines 150-180)
LoginOutcomeMutNoVerify(df, email, password) ==
    IF IsEmpty(df) THEN "store_empty"
    ELSE IF ColEmail \notin df.cols THEN "no_email_column"
    ELSE IF EmailMatches(df, email) # {}
         THEN IF ColHash \notin df.cols THEN "no_hash_column" ELSE "ok"
         ELSE "not_found"
LoginOutcome(df, email, password) ==
    IF IsEmpty(df) THEN "store_empty"
    ELSE IF ColEmail \notin df.cols THEN "no_email_column"
    ELSE IF EmailMatches(df, email) # {}
         THEN IF ColHash \notin df.cols THEN "no_hash_column"
              ELSE IF check_password(password,
                                     df.rows[FirstMatch(EmailMatches(df, email))].Hash)
                   THEN "ok"
                   ELSE "wrong_password"
         ELSE "not_found"

\* whether login_ui goes on to draw the "create account" button (line 184):
\* the early returns of lines 153, 158 and 167 leave it undrawn
LoginDrawsButton(outcome) ==
    outcome \notin {"store_empty", "no_email_column", "no_hash_column"}

\* display_careme_content (lines 216-240): what the content view shows
DateMatches(df, today_str) == {i \in 1..Len(df.rows) : df.rows[i].Date = today_str}

NoContent == [kind |-> "none", jour |-> 0]
ConfigError == [kind |-> "config_error", jour |-> 0]
Placeholder == [kind |-> "placeholder", jour |-> 0]
Entry(row) == [kind |-> "entry", jour |-> row.Jour]

Resolve(df, today_str) ==
    IF ColDate \notin df.cols THEN ConfigError
    ELSE IF DateMatches(df, today_str) = {} \/ IsEmpty(df) THEN Placeholder
    ELSE Entry(df.rows[FirstMatch(DateMatches(df, today_str))])

\* -------------------------------------------------------------- state
VARIABLES
    client,          \* get_gspread_client(): TRUE a client, FALSE None (cached)
    usersDoc,        \* the remote Users workbook: [header, rows]
    contentDoc,      \* the remote Content workbook: [header, rows]
    today,           \* date.today()
    authenticated,   \* st.session_state.authenticated, per session
    is_registering,  \* st.session_state.is_registering, per session
    user_email,      \* st.session_state.user_email, per session
    pc,              \* where each session's script run stands
    df_users,        \* the script run's global df_users, per session
    sheet_users,     \* the script run's global sheet_users, per session
    df_careme,       \* the script run's global df_careme, per session
    screen,          \* the page the last finished run drew, per session
    last,            \* the form or button the run handled, and its outcome
                     \* (raw: the email as typed into the login form)
    registered       \* <<email, password>> pairs registered by each session

vars == <<client, usersDoc, contentDoc, today, authenticated, is_registering,
          user_email, pc, df_users, sheet_users, df_careme, screen, last,
          registered>>

NoEmail == <<"None">>
NoLast == [op |-> "none", raw |-> <<>>, email |-> <<>>, password |-> "",
           result |-> "none"]
NoScreen == [view |-> "none", button |-> FALSE, content |-> NoContent]

\* the phase main_app_flow dispatches on (lines 287, 300, 304)
Phase(s) ==
    IF authenticated[s] THEN "LoggedIn"
    ELSE IF is_registering[s] THEN "Registering"
    ELSE "LoggedOut"

\* ------------------------------------------------------------ actions
\* the try block of register_user (lines 121-137): the remote append, then
\* the in-memory concat; an exception of append_row skips the concat
RegisterTryMutConcatFirst(df, doc, email, hashed_pwd, appendOk) ==
    IF appendOk
    THEN [result |-> "ok",
          doc |-> append_row(doc, email, hashed_pwd),
          df |-> ConcatUser(df, email, hashed_pwd)]
    ELSE [result |-> "append_failed", doc |-> doc,
          df |-> ConcatUser(df, email, hashed_pwd)]
RegisterTry(df, doc, email, hashed_pwd, appendOk) ==
    IF appendOk
    THEN [result |-> "ok",
          doc |-> append_row(doc, email, hashed_pwd),
          df |-> ConcatUser(df, email, hashed_pwd)]
    ELSE [result |-> "append_failed", doc |-> doc, df |-> df]

\* register_user (lines 103-137)
register_userMutChecksRemote(df, sheet, doc, email, password, salt, appendOk) ==
    IF RegisterGuard(df, sheet, email, password) # "proceed"
    THEN [result |-> RegisterGuard(df, sheet, email, password),
          doc |-> doc, df |-> df]
    ELSE IF \E i \in 1..Len(doc.rows) : doc.rows[i][1] = email
    THEN [result |-> "already_used", doc |-> doc, df |-> df]
    ELSE RegisterTry(df, doc, email, hash_password(password, salt), appendOk)
register_user(df, sheet, doc, email, password, salt, appendOk) ==
    IF RegisterGuard(df, sheet, email, password) # "proceed"
    THEN [result |-> RegisterGuard(df, sheet, email, password),
          doc |-> doc, df |-> df]
    ELSE RegisterTry(df, doc, email, hash_password(password, salt), appendOk)

\* the state st.session_state has after lines 271-276 of a session's first run
SessionDefaults ==
    /\ authenticated = [s \in Sessions |-> FALSE]
    /\ is_registering = [s \in Sessions |-> FALSE]
    /\ user_email = [s \in Sessions |-> NoEmail]

RunDefaults ==
    /\ pc = [s \in Sessions |-> "start"]
    /\ df_users = [s \in Sessions |-> EmptyDF]
    /\ sheet_users = [s \in Sessions |-> "None"]
    /\ df_careme = [s \in Sessions |-> EmptyDF]
    /\ screen = [s \in Sessions |-> NoScreen]
    /\ last = [s \in Sessions |-> NoLast]
    /\ registered = [s \in Sessions |-> {}]

UsersHeaders ==
    {<<e, h, ColInscription>> : e \in {ColEmail, "E-mail"}, h \in {ColHash, "Password"}}

\* the Users sheets a session may find: none yet, or one user written earlier
UsersRows0 == {<<>>, << <<(<<"a">>), hash_password("pw", 1)>> >>}

GoodUsersDoc ==
    [header |-> <<ColEmail, ColHash, ColInscription>>,
     rows |-> << <<(<<"a">>), hash_password("pw", 1)>> >>]

ContentHeaders == {<<ColDate>>, <<"Jour">>}

\* Init: any configuration of the Users workbook, one Content workbook
Init ==
    /\ client \in BOOLEAN
    /\ usersDoc \in [header : UsersHeaders, rows : UsersRows0]
    /\ contentDoc = [header |-> <<ColDate>>, rows |-> <<"2024-03-01">>]
    /\ today = 1
    /\ SessionDefaults
    /\ RunDefaults

\* InitContent: one well-formed Users workbook, any Content workbook
InitContent ==
    /\ client = TRUE
    /\ usersDoc = GoodUsersDoc
    /\ contentDoc \in [header : ContentHeaders,
                       rows : SeqsUpTo(DateCells, MaxContentRows)]
    /\ today \in Days
    /\ SessionDefaults
    /\ RunDefaults

\* lines 87-88, executed at the start of every script run; opening or
\* reading either workbook may raise (lines 68-82)
ScriptStart(s) ==
    /\ pc[s] \in {"start", "idle"}
    /\ \E usersOpened \in BOOLEAN, contentOpened \in BOOLEAN :
         /\ df_users' = [df_users EXCEPT ![s] =
               load_data(client, usersOpened, UsersFrame(usersDoc)).df]
         /\ sheet_users' = [sheet_users EXCEPT ![s] =
               load_data(client, usersOpened, UsersFrame(usersDoc)).sheet]
         /\ df_careme' = [df_careme EXCEPT ![s] =
               load_data(client, contentOpened, ContentFrame(contentDoc)).df]
    /\ pc' = [pc EXCEPT ![s] = IF pc[s] = "start" THEN "render" ELSE "run"]
    /\ last' = [last EXCEPT ![s] = NoLast]
    /\ UNCHANGED <<client, usersDoc, contentDoc, today, authenticated,
                   is_registering, user_email, screen, registered>>

ContentView(s) ==
    [view |-> "content", button |-> FALSE,
     content |-> Resolve(df_careme[s], strftime(today))]

\* main_app_flow of a run no widget triggered (session start, st.rerun())
Render(s) ==
    /\ pc[s] = "render"
    /\ screen' = [screen EXCEPT ![s] =
          IF authenticated[s] THEN ContentView(s)
          ELSE IF is_registering[s]
               THEN [view |-> "register", button |-> TRUE, content |-> NoContent]
               ELSE [view |-> "login", button |-> TRUE, content |-> NoContent]]
    /\ pc' = [pc EXCEPT ![s] = "idle"]
    /\ UNCHANGED <<client, usersDoc, contentDoc, today, authenticated,
                   is_registering, user_email, df_users, sheet_users, df_careme,
                   last, registered>>

\* what a submitted login does to st.session_state (lines 171-180)
LoginEffectMutLockout(s, email, outcome) ==
    IF outcome = "ok" /\ screen[s].button
    THEN /\ authenticated' = [authenticated EXCEPT ![s] = TRUE]
         /\ user_email' = [user_email EXCEPT ![s] = email]
         /\ is_registering' = [is_registering EXCEPT ![s] = FALSE]
    ELSE UNCHANGED <<authenticated, user_email, is_registering>>
LoginEffect(s, email, outcome) ==
    IF outcome = "ok"
    THEN /\ authenticated' = [authenticated EXCEPT ![s] = TRUE]
         /\ user_email' = [user_email EXCEPT ![s] = email]
         /\ is_registering' = [is_registering EXCEPT ![s] = FALSE]
    ELSE UNCHANGED <<authenticated, user_email, is_registering>>

\* what a submitted registration does to st.session_state (lines 198-201)
RegisterEffectMutAlwaysBack(s, result) ==
    /\ is_registering' = [is_registering EXCEPT ![s] = FALSE]
    /\ UNCHANGED <<authenticated, user_email>>
RegisterEffectMutAutoLogin(s, result) ==
    /\ authenticated' = [authenticated EXCEPT ![s] =
                            IF result = "ok" THEN TRUE ELSE @]
    /\ UNCHANGED <<is_registering, user_email>>
RegisterEffect(s, result) ==
    /\ is_registering' = [is_registering EXCEPT ![s] =
                             IF result = "ok" THEN FALSE ELSE @]
    /\ UNCHANGED <<authenticated, user_email>>

\* login_ui, the form submitted (lines 145-180)
LoginSubmit(s) ==
    /\ pc[s] = "run"
    /\ Phase(s) = "LoggedOut"
    /\ screen[s].view = "login"
    /\ \E raw \in RawEmails, password \in Passwords :
         LET email == NormalizeEmail(raw)
             outcome == LoginOutcome(df_users[s], email, password)
         IN /\ last' = [last EXCEPT ![s] =
                  [op |-> "login", raw |-> raw, email |-> email,
                   password |-> password, result |-> outcome]]
            /\ LoginEffect(s, email, outcome)
            /\ IF outcome = "ok"
               THEN /\ pc' = [pc EXCEPT ![s] = "start"]
                    /\ UNCHANGED screen
               ELSE /\ screen' = [screen EXCEPT ![s] =
                          [view |-> "login", button |-> LoginDrawsButton(outcome),
                           content |-> NoContent]]
                    /\ pc' = [pc EXCEPT ![s] = "idle"]
    /\ UNCHANGED <<client, usersDoc, contentDoc, today, df_users, sheet_users,
                   df_careme, registered>>

\* login_ui, the "create account" button (lines 184-186)
CreateAccount(s) ==
    /\ pc[s] = "run"
    /\ Phase(s) = "LoggedOut"
    /\ screen[s].view = "login" /\ screen[s].button
    /\ is_registering' = [is_registering EXCEPT ![s] = TRUE]
    /\ pc' = [pc EXCEPT ![s] = "start"]
    /\ last' = [last EXCEPT ![s] = [NoLast EXCEPT !.op = "create_account"]]
    /\ UNCHANGED <<client, usersDoc, contentDoc, today, authenticated, user_email,
                   df_users, sheet_users, df_careme, screen, registered>>

\* register_ui, the form submitted (lines 192-201)
RegisterSubmit(s) ==
    /\ pc[s] = "run"
    /\ Phase(s) = "Registering"
    /\ screen[s].view = "register"
    /\ \E raw \in RawEmails, password \in Passwords, salt \in Salts,
          appendOk \in BOOLEAN :
         LET email == NormalizeEmail(raw)
             r == register_user(df_users[s], sheet_users[s], usersDoc, email,
                                password, salt, appendOk)
         IN /\ r.result = "ok" => Len(usersDoc.rows) < MaxUsers
            /\ usersDoc' = r.doc
            /\ df_users' = [df_users EXCEPT ![s] = r.df]
            /\ last' = [last EXCEPT ![s] =
                  [op |-> "register", raw |-> <<>>, email |-> email,
                   password |-> password, result |-> r.result]]
            /\ RegisterEffect(s, r.result)
            /\ IF r.result = "ok"
               THEN /\ registered' = [registered EXCEPT ![s] =
                                         @ \cup {<<email, password>>}]
                    /\ pc' = [pc EXCEPT ![s] = "start"]
                    /\ UNCHANGED screen
               ELSE /\ screen' = [screen EXCEPT ![s] =
                          [view |-> "register", button |-> TRUE,
                           content |-> NoContent]]
                    /\ pc' = [pc EXCEPT ![s] = "idle"]
                    /\ UNCHANGED registered
    /\ UNCHANGED <<client, contentDoc, today, sheet_users, df_careme>>

\* register_ui, the "back to login" button (lines 205-207)
BackToLogin(s) ==
    /\ pc[s] = "run"
    /\ Phase(s) = "Registering"
    /\ screen[s].view = "register"
    /\ is_registering' = [is_registering EXCEPT ![s] = FALSE]
    /\ pc' = [pc EXCEPT ![s] = "start"]
    /\ last' = [last EXCEPT ![s] = [NoLast EXCEPT !.op = "back_to_login"]]
    /\ UNCHANGED <<client, usersDoc, contentDoc, today, authenticated, user_email,
                   df_users, sheet_users, df_careme, screen, registered>>

\* main_app_flow of a logged-in run whose logout button was clicked
\* (lines 287-297): the content is drawn, then the session is logged out
LogoutMutKeepsEmail(s) ==
    /\ pc[s] = "run"
    /\ Phase(s) = "LoggedIn"
    /\ screen[s].view = "content"
    /\ screen' = [screen EXCEPT ![s] = ContentView(s)]
    /\ authenticated' = [authenticated EXCEPT ![s] = FALSE]
    /\ pc' = [pc EXCEPT ![s] = "start"]
    /\ last' = [last EXCEPT ![s] = [NoLast EXCEPT !.op = "logout"]]
    /\ UNCHANGED <<client, usersDoc, contentDoc, today, is_registering,
                   user_email, df_users, sheet_users, df_careme, registered>>
Logout(s) ==
    /\ pc[s] = "run"
    /\ Phase(s) = "LoggedIn"
    /\ screen[s].view = "content"
    /\ screen' = [screen EXCEPT ![s] = ContentView(s)]
    /\ authenticated' = [authenticated EXCEPT ![s] = FALSE]
    /\ user_email' = [user_email EXCEPT ![s] = NoEmail]
    /\ pc' = [pc EXCEPT ![s] = "start"]
    /\ last' = [last EXCEPT ![s] = [NoLast EXCEPT !.op = "logout"]]
    /\ UNCHANGED <<client, usersDoc, contentDoc, today, is_registering,
                   df_users, sheet_users, df_careme, registered>>

\* one session, no other writer
Next ==
    \E s \in {"A"} :
        \/ ScriptStart(s)
        \/ Render(s)
        \/ LoginSubmit(s)
        \/ CreateAccount(s)
        \/ RegisterSubmit(s)
        \/ BackToLogin(s)
        \/ Logout(s)

Spec == Init /\ [][Next]_vars

SpecContent == InitContent /\ [][Next]_vars

\* InitTwo: a well-formed Users workbook that two browser sessions share
InitTwo ==
    /\ client = TRUE
    /\ usersDoc \in [header : {<<ColEmail, ColHash, ColInscription>>},
                     rows : UsersRows0]
    /\ contentDoc = [header |-> <<ColDate>>, rows |-> <<"2024-03-01">>]
    /\ today = 1
    /\ SessionDefaults
    /\ RunDefaults

\* what the users of the two sessions type: the same email, in lower case
\* without blanks around it, and the same password
SameEmailInputs ==
    \A s \in Sessions :
        last'[s].op \in {"login", "register"} =>
            /\ last'[s].email = <<"a">>
            /\ last'[s].password = "pw"
            /\ last'[s].op = "login" => last'[s].raw = last'[s].email

\* the Content workbook opens in every script run of the two sessions
ContentOpens(s) == ~IsEmpty(df_careme'[s])

\* two sessions of the same server process, their script runs interleaved
NextTwo ==
    \E s \in Sessions :
        \/ ScriptStart(s) /\ ContentOpens(s)
        \/ Render(s)
        \/ LoginSubmit(s) /\ SameEmailInputs
        \/ CreateAccount(s)
        \/ RegisterSubmit(s) /\ SameEmailInputs
        \/ BackToLogin(s)
        \/ Logout(s)

SpecTwo == InitTwo /\ [][NextTwo]_vars

\* ------------------------------------------------------------- claims
AllowedPhaseChange(s) ==
    \/ /\ Phase(s) = "LoggedOut" /\ Phase(s)' = "Registering"
       /\ last'[s].op = "create_account"
    \/ /\ Phase(s) = "Registering" /\ Phase(s)' = "LoggedOut"
       /\ \/ last'[s].op = "register" /\ last'[s].result = "ok"
          \/ last'[s].op = "back_to_login"
    \/ /\ Phase(s) = "LoggedOut" /\ Phase(s)' = "LoggedIn"
       /\ last'[s].op = "login" /\ last'[s].result = "ok"
    \/ /\ Phase(s) = "LoggedIn" /\ Phase(s)' = "LoggedOut"
       /\ last'[s].op = "logout"

Handled(s, op) == pc[s] = "run" /\ pc'[s] # "run" /\ last'[s].op = op

\* C1: the phase starts at LoggedOut and changes only by create account,
\* successful registration, back to login, successful login and logout; a
\* failed registration stays in Registering, a failed login in LoggedOut, and
\* a successful registration ends in LoggedOut, never in LoggedIn.
C1_PhaseTransitions ==
    /\ \A s \in Sessions : Phase(s) = "LoggedOut"
    /\ [][\A s \in Sessions :
            /\ Phase(s)' # Phase(s) => AllowedPhaseChange(s)
            /\ Handled(s, "register") /\ last'[s].result # "ok"
                 => Phase(s) = "Registering" /\ Phase(s)' = "Registering"
            /\ Handled(s, "register") /\ last'[s].result = "ok"
                 => Phase(s) = "Registering" /\ Phase(s)' = "LoggedOut"
            /\ Handled(s, "login") /\ last'[s].result # "ok"
                 => Phase(s) = "LoggedOut" /\ Phase(s)' = "LoggedOut"]_vars

\* a session that registered, went back to the login form and logged in
C1_Witness ==
    /\ Phase("A") = "LoggedIn"
    /\ registered["A"] # {}
    /\ screen["A"].view = "content"

\* the Users sheet was read by the session's current script run
UsersLoaded(s) == sheet_users[s] # "None"

RegisteredEmails(s) == {p[1] : p \in registered[s]}

\* C2: a login with an email and password registered earlier in the
\* same session succeeds and sets current_user_email to that email.
C2_RegisterThenLogin ==
    \A s \in Sessions :
        last[s].op = "login" /\ <<last[s].email, last[s].password>> \in registered[s]
            => /\ last[s].result = "ok"
               /\ Phase(s) = "LoggedIn"
               /\ user_email[s] = last[s].email

\* C3: once an email is registered in the session, every later
\* registration of it is rejected as already used and appends no row, neither
\* to the remote sheet nor to the snapshot.
C3_SecondRegisterRejected ==
    [][\A s \in Sessions :
          Handled(s, "register") /\ last'[s].email \in RegisteredEmails(s)
            => /\ last'[s].result = "already_used"
               /\ usersDoc' = usersDoc
               /\ df_users'[s] = df_users[s]]_vars

\* the typed text is the stored email up to letter case and surrounding blanks
DiffersOnlyInCaseOrBlanks(raw, stored) ==
    \E lead \in 0..Len(raw) :
        /\ lead + Len(stored) <= Len(raw)
        /\ \A k \in 1..Len(raw) :
             IF k <= lead \/ k > lead + Len(stored)
             THEN raw[k] = " "
             ELSE LowerChar(raw[k]) = LowerChar(stored[k - lead])

\* the rows of the snapshot that are user records: an email and a hash
StoredUsers(s) ==
    IF ColEmail \in df_users[s].cols /\ ColHash \in df_users[s].cols
    THEN 1..Len(df_users[s].rows) ELSE {}

\* C4: a login whose typed email differs from a stored user's email only in
\* letter case or surrounding whitespace, with that user's password, succeeds.
C4_NormalizedLogin ==
    \A s \in Sessions :
        last[s].op = "login" =>
            \A i \in StoredUsers(s) :
                /\ DiffersOnlyInCaseOrBlanks(last[s].raw, df_users[s].rows[i].Email)
                /\ \A j \in StoredUsers(s) :
                     df_users[s].rows[j].Email = df_users[s].rows[i].Email => i <= j
                /\ bcrypt_hashpw(last[s].password, df_users[s].rows[i].Hash[1])
                     = df_users[s].rows[i].Hash
                => /\ last[s].result = "ok"
                   /\ Phase(s) = "LoggedIn"
                   /\ user_email[s] = df_users[s].rows[i].Email

C4_Witness ==
    /\ last["A"].op = "login"
    /\ last["A"].raw # last["A"].email
    /\ last["A"].result = "ok"
    /\ Phase("A") = "LoggedIn"

InStore(s, email) ==
    \E i \in 1..Len(df_users[s].rows) : df_users[s].rows[i].Email = email

FirstHash(s, email) ==
    df_users[s].rows[CHOOSE i \in 1..Len(df_users[s].rows) :
        /\ df_users[s].rows[i].Email = email
        /\ \A j \in 1..(i - 1) : df_users[s].rows[j].Email # email].Hash

LoginRejected(s, reason) ==
    /\ last'[s].result = reason
    /\ Phase(s)' = "LoggedOut"
    /\ user_email'[s] = NoEmail
    /\ usersDoc' = usersDoc
    /\ df_users'[s] = df_users[s]

\* C5 as stated: a login with an email absent from the store is rejected as
\* not found, one with a present email and a password that does not verify
\* against the stored hash as wrong password; the session stays LoggedOut
\* without current_user_email and the store is unchanged.
C5_LoginRejections ==
    [][\A s \in Sessions :
          Handled(s, "login") =>
            /\ ~InStore(s, last'[s].email) => LoginRejected(s, "not_found")
            /\ /\ InStore(s, last'[s].email)
               /\ ColHash \in df_users[s].cols
               /\ bcrypt_hashpw(last'[s].password, FirstHash(s, last'[s].email)[1])
                    # FirstHash(s, last'[s].email)
               => LoginRejected(s, "wrong_password")]_vars

\* C5 amended: "not found" is the reason when the snapshot is not empty and has
\* the Email column; an empty or unloaded snapshot is rejected as store empty
\* and a missing Email column as a configuration error, with the same frame.
C5_LoginRejectionsNonEmpty ==
    [][\A s \in Sessions :
          Handled(s, "login") =>
            /\ ~InStore(s, last'[s].email) =>
                 LoginRejected(s,
                     IF IsEmpty(df_users[s]) THEN "store_empty"
                     ELSE IF ColEmail \notin df_users[s].cols THEN "no_email_column"
                     ELSE "not_found")
            /\ /\ InStore(s, last'[s].email)
               /\ ColHash \in df_users[s].cols
               /\ bcrypt_hashpw(last'[s].password, FirstHash(s, last'[s].email)[1])
                    # FirstHash(s, last'[s].email)
               => LoginRejected(s, "wrong_password")]_vars

C5_Witness ==
    /\ last["A"].op = "login"
    /\ last["A"].result = "wrong_password"
    /\ Phase("A") = "LoggedOut"

\* C6 as stated: a registration with an empty email or an empty password that
\* reaches the checks is rejected for the empty field, also when the email is
\* already in the store.
C6_EmptyFieldFirst ==
    \A s \in Sessions :
        /\ last[s].op = "register"
        /\ UsersLoaded(s)
        /\ last[s].email = <<>> \/ last[s].password = ""
        => last[s].result = "empty_field"

\* C6 amended: the email-already-present check comes first: such a registration
\* is rejected as already used when the snapshot holds the email, and for the
\* empty field otherwise; no row is appended either way.
C6_DuplicateCheckFirst ==
    [][\A s \in Sessions :
          /\ Handled(s, "register")
          /\ UsersLoaded(s)
          /\ last'[s].email = <<>> \/ last'[s].password = ""
          => /\ last'[s].result =
                   IF ColEmail \in df_users[s].cols /\ InStore(s, last'[s].email)
                   THEN "already_used" ELSE "empty_field"
             /\ usersDoc' = usersDoc
             /\ df_users'[s] = df_users[s]]_vars

C6_Witness ==
    /\ last["A"].op = "register"
    /\ last["A"].password = ""
    /\ last["A"].result = "already_used"

InRemote(row) ==
    \E j \in 1..Len(usersDoc.rows) :
        \/ usersDoc.rows[j] = <<row.Email, row.Hash>>
        \/ UsersFrame(usersDoc).rows[j] = row

\* C7: the snapshot gains a row only after its remote append succeeded: every
\* row of a snapshot is a row of the remote sheet, and a failed append rejects
\* the registration, leaves the snapshot and the sheet as they were and the
\* session in Registering.
C7_SnapshotAfterRemote ==
    /\ [](\A s \in Sessions : \A i \in 1..Len(df_users[s].rows) :
              InRemote(df_users[s].rows[i]))
    /\ [][\A s \in Sessions :
            /\ Handled(s, "register") /\ last'[s].result # "ok"
                 => /\ df_users'[s] = df_users[s]
                    /\ usersDoc' = usersDoc
                    /\ Phase(s)' = "Registering"
            /\ Handled(s, "register") /\ last'[s].result = "ok"
                 => /\ Len(usersDoc'.rows) = Len(usersDoc.rows) + 1
                    /\ Len(df_users'[s].rows) = Len(df_users[s].rows) + 1
                    /\ usersDoc'.rows[Len(usersDoc'.rows)] =
                         <<df_users'[s].rows[Len(df_users'[s].rows)].Email,
                           df_users'[s].rows[Len(df_users'[s].rows)].Hash>>]_vars

C7_Witness ==
    /\ last["A"].op = "register"
    /\ last["A"].result = "append_failed"
    /\ Phase("A") = "Registering"
    /\ registered["A"] # {}

\* C8: on a Content table whose rows carry a Date, the content view
\* shows the first row whose Date is today's date, and the placeholder
\* (NotFound) when there is none.
C8_ResolveFirstMatch ==
    \A s \in Sessions :
        /\ screen[s].view = "content"
        /\ pc[s] = "idle"
        /\ ColDate \in df_careme[s].cols \/ df_careme[s].rows = <<>>
        => screen[s].content =
             IF DateMatches(df_careme[s], strftime(today)) = {}
             THEN Placeholder
             ELSE [kind |-> "entry",
                   jour |-> CHOOSE i \in DateMatches(df_careme[s], strftime(today)) :
                       \A j \in 1..(i - 1) :
                           df_careme[s].rows[j].Date # strftime(today)]

\* C9: with an empty Content table the content view shows the
\* placeholder, not a configuration error.
C9_EmptyContentPlaceholder ==
    \A s \in Sessions :
        /\ screen[s].view = "content"
        /\ pc[s] = "idle"
        /\ df_careme[s].rows = <<>>
        => screen[s].content = Placeholder

\* C10: without a gateway client every login is rejected as store unavailable
\* and every registration as service unavailable, no row is appended to the
\* sheet or to a snapshot, and no session is LoggedIn.
C10_NoClientNoAccess ==
    /\ [](client = FALSE =>
            \A s \in Sessions :
                /\ Phase(s) # "LoggedIn"
                /\ IsEmpty(df_users[s])
                /\ last[s].op = "login" => last[s].result = "store_empty"
                /\ last[s].op = "register" => last[s].result = "unavailable")
    /\ [][client = FALSE => usersDoc' = usersDoc /\ client' = client]_vars

C10_Witness ==
    /\ client = FALSE
    /\ last["A"].op = "register"
    /\ last["A"].result = "unavailable"

\* the session has loaded its snapshot: its first script run has begun
SessionStarted(s) == pc[s] # "start" \/ screen[s] # NoScreen

\* C11: a session's snapshot is built once, at session start, and is not
\* re-read from the remote Users sheet afterwards: an email another session
\* registers after the session started, which its snapshot therefore lacks,
\* stays out of the snapshot (so a login with it is rejected as not found and
\* a registration of it is not rejected as already used).
C11_SnapshotBuiltOnce ==
    [][\A s \in Sessions : SessionStarted(s) =>
          \A t \in Sessions \ {s} : \A e \in RegisteredEmails(t) :
              ~InStore(s, e) /\ e \notin RegisteredEmails(s) => ~InStore(s, e)']_vars

\* the rows of the remote Users sheet whose first cell is the email
RemoteRows(doc, email) == {i \in 1..Len(doc.rows) : doc.rows[i][1] = email}

\* C12: two sessions can both register the same email: the duplicate check
\* of a registration reads the session's own snapshot only, so a registration
\* whose snapshot lacks the email passes the check although the remote sheet
\* already holds a row for it, and when its append succeeds the sheet holds
\* two rows with the same email.
C12_BothRegistrationsSucceed ==
    [][\A s \in Sessions :
          /\ Handled(s, "register")
          /\ UsersLoaded(s)
          /\ last'[s].email # <<>> /\ last'[s].password # ""
          /\ ~InStore(s, last'[s].email)
          /\ RemoteRows(usersDoc, last'[s].email) # {}
          => /\ last'[s].result \in {"ok", "append_failed"}
             /\ last'[s].result = "ok" =>
                  /\ Len(usersDoc'.rows) = Len(usersDoc.rows) + 1
                  /\ Cardinality(RemoteRows(usersDoc', last'[s].email)) =
                       Cardinality(RemoteRows(usersDoc, last'[s].email)) + 1]_vars

\* both sessions registered the email and the sheet holds a row for each
C12_Witness ==
    \E e \in RegisteredEmails("A") \cap RegisteredEmails("B") :
        /\ Cardinality(RemoteRows(usersDoc, e)) >= 2
        /\ last["B"].op = "register" /\ last["B"].result = "ok"
        /\ last["B"].email = e

\* C13: in a single session with no other writer, whatever registrations
\* are submitted, no two rows of the remote Users sheet and no two rows of the
\* snapshot carry the same email.
C13_EmailsUnique ==
    /\ \A i, j \in 1..Len(usersDoc.rows) :
          i # j => usersDoc.rows[i][1] # usersDoc.rows[j][1]
    /\ \A s \in Sessions : \A i, j \in 1..Len(df_users[s].rows) :
          i # j /\ df_users[s].rows[i].Email # NaNEmail
            => df_users[s].rows[i].Email # df_users[s].rows[j].Email

\* C14: logout, taken from LoggedIn, leaves the session LoggedOut without
\* current_user_email and not registering, and changes neither the remote
\* Users sheet nor the snapshot; the screen drawn next is the login form.
C14_LogoutResets ==
    [][\A s \in Sessions :
          /\ Handled(s, "logout")
                => /\ Phase(s) = "LoggedIn"
                   /\ Phase(s)' = "LoggedOut"
                   /\ user_email'[s] = NoEmail
                   /\ usersDoc' = usersDoc
                   /\ df_users'[s] = df_users[s]
          /\ pc[s] = "render" /\ screen[s].view = "content" /\ ~authenticated[s]
                => screen'[s].view = "login"]_vars

\* the script run started by the st.rerun() of a logout, about to draw
C14_Witness ==
    /\ pc["A"] = "render"
    /\ screen["A"].view = "content"
    /\ Phase("A") = "LoggedOut"
    /\ user_email["A"] = NoEmail
    /\ ~IsEmpty(df_users["A"])

\* the snapshot holds the email and the password verifies against the hash
\* of the first row that holds it
CredentialsValid(s, email, password) ==
    /\ ColEmail \in df_users[s].cols /\ ColHash \in df_users[s].cols
    /\ InStore(s, email)
    /\ bcrypt_hashpw(password, FirstHash(s, email)[1]) = FirstHash(s, email)

\* C15: login keeps no memory of earlier attempts: whatever came before, a
\* login succeeds exactly when the submitted email and password are valid
\* for the current snapshot, and a failed login changes neither the session
\* state nor the stores.
C15_LoginNoMemory ==
    [][\A s \in Sessions :
          Handled(s, "login") =>
            /\ last'[s].result = "ok"
                  <=> CredentialsValid(s, last'[s].email, last'[s].password)
            /\ last'[s].result = "ok"
                  => Phase(s)' = "LoggedIn" /\ user_email'[s] = last'[s].email
            /\ last'[s].result # "ok"
                  => UNCHANGED <<client, usersDoc, contentDoc, authenticated,
                                 is_registering, user_email, df_users,
                                 sheet_users, df_careme>>]_vars

\* a login that succeeds right after one that failed: the failed run left
\* the login form without its "create account" button
C15_Witness ==
    /\ last["A"].op = "login"
    /\ last["A"].result = "ok"
    /\ Phase("A") = "LoggedIn"
    /\ screen["A"].view = "login"
    /\ ~screen["A"].button

\* C16: a login against a non-empty snapshot that lacks the Email or the
\* password-hash column is rejected with the configuration error naming a
\* missing column, whether or not the email matches a row, and the session
\* stays LoggedOut.
C16_MissingColumnConfigError ==
    [][\A s \in Sessions :
          /\ Handled(s, "login")
          /\ ~IsEmpty(df_users[s])
          /\ ColEmail \notin df_users[s].cols \/ ColHash \notin df_users[s].cols
          => /\ \/ /\ last'[s].result = "no_email_column"
                   /\ ColEmail \notin df_users[s].cols
                \/ /\ last'[s].result = "no_hash_column"
                   /\ ColHash \notin df_users[s].cols
             /\ Phase(s)' = "LoggedOut"]_vars

\* C17: a session is LoggedIn only as the result of a login whose
\* normalized email is in the snapshot and whose password verifies against the
\* hash of the first row holding it; current_user_email is set exactly when
\* the session is LoggedIn, to that email, and stays so while it is LoggedIn.
C17_LoggedInOnlyByVerifiedLogin ==
    /\ [](\A s \in Sessions : Phase(s) = "LoggedIn" <=> user_email[s] # NoEmail)
    /\ [][\A s \in Sessions :
            /\ Phase(s) # "LoggedIn" /\ Phase(s)' = "LoggedIn"
                 => /\ Handled(s, "login")
                    /\ last'[s].email = NormalizeEmail(last'[s].raw)
                    /\ \E i \in 1..Len(df_users[s].rows) :
                         /\ df_users[s].rows[i].Email = last'[s].email
                         /\ \A j \in 1..(i - 1) :
                              df_users[s].rows[j].Email # last'[s].email
                         /\ bcrypt_hashpw(last'[s].password,
                                          df_users[s].rows[i].Hash[1])
                              = df_users[s].rows[i].Hash
                    /\ user_email'[s] = last'[s].email
            /\ Phase(s) = "LoggedIn" /\ Phase(s)' = "LoggedIn"
                 => user_email'[s] = user_email[s]]_vars

\* a session logged in with the email typed in upper case and between blanks
C17_Witness ==
    /\ Phase("A") = "LoggedIn"
    /\ user_email["A"] = <<"a">>
    /\ last["A"].op = "login"
    /\ last["A"].raw = <<" ", "A", " ">>

\* C18: authenticated and is_registering are never both true, although
\* logout leaves is_registering as it is.
C18_FlagsExclusive ==
    /\ [](\A s \in Sessions : ~(authenticated[s] /\ is_registering[s]))
    /\ [][\A s \in Sessions :
            Handled(s, "logout") => is_registering'[s] = is_registering[s]]_vars

\* a session that went through the registration form and is now logged in
C18_Witness ==
    /\ authenticated["A"]
    /\ ~is_registering["A"]
    /\ registered["A"] # {}

====
